---- MODULE Spec2Model ----
(***************************************************************************)
(* Model of src/builder/cli.py: the docstring help extractor, the command  *)
(* line dispatcher BuilderCLI and the subcommands Build and Info.          *)
(*                                                                         *)
(* Strings whose characters matter (docstrings, help texts) are sequences  *)
(* of one-character strings.  Command line tokens are atoms.               *)
(***************************************************************************)
EXTENDS Integers, Sequences, FiniteSets, TLC

VARIABLES arg, docstring, result,
          argv, supplied, pc, args, subcommand, stdout, exit_code,
          calls, acquired, released, exc

vars == <<arg, docstring, result,
          argv, supplied, pc, args, subcommand, stdout, exit_code,
          calls, acquired, released, exc>>

extractVars == <<arg, docstring, result>>
cliVars == <<argv, supplied, args, subcommand, stdout, exit_code>>
buildVars == <<calls, acquired, released, exc>>

None == "None"
NoValue == [t |-> "none"]
NoArgs == <<"<sys.argv>">>
Unset == [cls |-> "unset"]
NoResult == [kind |-> "unset", value |-> << >>]
Running == -1

(* ---------------------------------------------------------------------- *)
(* Bounds                                                                  *)
(* ---------------------------------------------------------------------- *)
MaxLines == 4
MaxDescLen == 2
MaxArgs == 5
MaxSupplied == 2

(* ---------------------------------------------------------------------- *)
(* Character strings                                                       *)
(* ---------------------------------------------------------------------- *)
NL == "\n"
SP == " "
DOT == "."

RECURSIVE SeqsUpTo(_, _)
SeqsUpTo(S, n) ==
    IF n = 0 THEN {<< >>}
    ELSE LET shorter == SeqsUpTo(S, n - 1)
         IN  shorter \cup {Append(s, x) : s \in {t \in shorter : Len(t) = n - 1}, x \in S}

RECURSIVE Flatten(_)
Flatten(ss) == IF ss = << >> THEN << >> ELSE Head(ss) \o Flatten(Tail(ss))

(* pat in line *)
Contains(line, pat) ==
    \E i \in 1..(Len(line) - Len(pat) + 1) : SubSeq(line, i, i + Len(pat) - 1) = pat

(* str.strip() == "" *)
IsBlank(line) == \A i \in 1..Len(line) : line[i] \in {SP, NL}

(* str.lstrip() *)
RECURSIVE LStrip(_)
LStrip(s) == IF s # << >> /\ Head(s) \in {SP, NL} THEN LStrip(Tail(s)) ELSE s

(* str.rstrip(".") *)
RECURSIVE RStripDot(_)
RStripDot(s) ==
    IF s # << >> /\ s[Len(s)] = DOT THEN RStripDot(SubSeq(s, 1, Len(s) - 1)) ELSE s

LowerChar(c) == IF c = "D" THEN "d" ELSE c

(* str.lower() *)
Lower(s) == [i \in 1..Len(s) |-> LowerChar(s[i])]

(* str.splitlines(): lines are ended by a line break, and a final line     *)
(* break does not open another, empty, line.                               *)
RECURSIVE SplitFrom(_, _)
SplitFrom(s, cur) ==
    IF s = << >> THEN (IF cur = << >> THEN << >> ELSE <<cur>>)
    ELSE IF Head(s) = NL THEN <<cur>> \o SplitFrom(Tail(s), << >>)
    ELSE SplitFrom(Tail(s), Append(cur, Head(s)))

SplitLines(s) == SplitFrom(s, << >>)

(* ---------------------------------------------------------------------- *)
(* _extract_help_from_docstring                                            *)
(* ---------------------------------------------------------------------- *)
ArgPattern(a) == a \o <<SP, ":", SP>>
TypeSep == <<SP, ":", SP>>

Returned(v) == [kind |-> "return", value |-> v]
KeyError == [kind |-> "KeyError", value |-> << >>]

(* "".join(arg_desc).lstrip().lower().rstrip(".") *)
FormatDesc(arg_desc) == RStripDot(Lower(LStrip(Flatten(arg_desc))))

(* The for loop over the lines, from line i on, and its else clause. *)
RECURSIVE ExtractLoop(_, _, _, _, _)
ExtractLoop(a, lines, i, arg_found, arg_desc) ==
    IF i > Len(lines) THEN KeyError
    ELSE IF arg_found
         THEN IF Contains(lines[i], TypeSep) \/ IsBlank(lines[i])
              THEN Returned(FormatDesc(arg_desc))
              ELSE ExtractLoop(a, lines, i + 1, TRUE, arg_desc \o <<lines[i], <<SP>>>>)
         ELSE ExtractLoop(a, lines, i + 1, Contains(lines[i], ArgPattern(a)), arg_desc)

ExtractHelp(a, doc) == ExtractLoop(a, SplitLines(doc), 1, FALSE, << >>)

(* ---------------------------------------------------------------------- *)
(* Docstrings the extractor is applied to                                  *)
(* ---------------------------------------------------------------------- *)
Names == {<<"p">>, <<"q">>}
DescChars == {"D", SP, DOT}
HeaderLines == {n \o TypeSep \o <<"T">> : n \in Names}
DescLines == SeqsUpTo(DescChars, MaxDescLen)
DocLines == HeaderLines \cup DescLines

RECURSIVE JoinLines(_)
JoinLines(ls) ==
    IF ls = << >> THEN << >>
    ELSE IF Len(ls) = 1 THEN Head(ls)
    ELSE Head(ls) \o <<NL>> \o JoinLines(Tail(ls))

(* The texts of at most n lines, each with and without a final line break *)
Docstrings(n) ==
    LET texts == {JoinLines(ls) : ls \in SeqsUpTo(DocLines, n)}
    IN  texts \cup {t \o <<NL>> : t \in texts}

InitExtract ==
    /\ arg \in Names
    /\ docstring \in Docstrings(MaxLines)
    /\ result = NoResult
    /\ pc = "start"
    /\ argv = << >> /\ supplied = NoArgs /\ args = << >> /\ subcommand = Unset
    /\ stdout = << >> /\ exit_code = Running
    /\ calls = << >> /\ acquired = 0 /\ released = 0 /\ exc = None

Extract ==
    /\ pc = "start"
    /\ result' = ExtractHelp(arg, docstring)
    /\ pc' = "done"
    /\ UNCHANGED <<arg, docstring>>
    /\ UNCHANGED cliVars
    /\ UNCHANGED buildVars

NextExtract == Extract

SpecExtract == InitExtract /\ [][NextExtract]_vars

(* ---------------------------------------------------------------------- *)
(* Command line parsing (argparse, as BuilderCLI.__init__ configures it)   *)
(* ---------------------------------------------------------------------- *)
(* "-h" stands for -h and --help; "--conda-env=x" is the one-token form of  *)
(* the option with the value x; "--bogus" is a flag no parser declares;    *)
(* "x" is a plain word.                                                    *)
Tokens == {"build", "info", "-h", "--base-image", "--conda-env=x", "--bogus", "x"}
ValueTokens == {"build", "info", "x"}
Vectors(n) == UNION {[1..k -> Tokens] : k \in 0..n}

Str(s) == [t |-> "str", s |-> s]
Cwd == <<"cwd">>
(* pathlib.Path(token): the tokens are relative paths *)
Path(s) == [t |-> "path", anchor |-> "", parts |-> <<s>>]
(* pathlib.Path.absolute() *)
Absolute(p) ==
    IF p.anchor = "/" THEN p ELSE [t |-> "path", anchor |-> "/", parts |-> Cwd \o p.parts]

HelpText(parser) == [t |-> "help", parser |-> parser]
InfoMessage == [t |-> "line", parser |-> "Sorry, no information about your system is available at this time."]

SysExit(code, out) == [kind |-> "exit", code |-> code, out |-> out]
Parsed(ns, extras) == [kind |-> "ns", ns |-> ns, extras |-> extras]

(* Build.add_arguments, then set_defaults(subcommand_cls=Build) *)
BuildDefaults ==
    [k \in {"image_path", "base_image", "conda_env", "subcommand_cls"} |->
        IF k = "subcommand_cls" THEN Str("Build") ELSE NoValue]
(* Info.add_arguments adds nothing, then set_defaults(subcommand_cls=Info) *)
InfoDefaults == [k \in {"subcommand_cls"} |-> Str("Info")]

(* mutant: --base-image declared without required=True *)
MissingRequired_ImageOnly(cmd, ns) ==
    cmd = "build" /\ ns["image_path"] = NoValue

MissingRequired(cmd, ns) ==
    cmd = "build" /\ (ns["image_path"] = NoValue \/ ns["base_image"] = NoValue)

(* The sub-parser of cmd on the tokens after the subcommand token. *)
RECURSIVE ParseSub(_, _, _, _, _)
ParseSub(cmd, rest, i, ns, extras) ==
    IF i > Len(rest)
    THEN IF MissingRequired(cmd, ns) THEN SysExit(2, << >>) ELSE Parsed(ns, extras)
    ELSE LET tok == rest[i] IN
         IF tok = "-h" THEN SysExit(0, <<HelpText(cmd)>>)
         ELSE IF cmd = "build" /\ tok = "--base-image"
         THEN IF i + 1 <= Len(rest) /\ rest[i + 1] \in ValueTokens
              THEN ParseSub(cmd, rest, i + 2,
                            [ns EXCEPT !["base_image"] = Str(rest[i + 1])], extras)
              ELSE SysExit(2, << >>)
         ELSE IF cmd = "build" /\ tok = "--conda-env=x"
         THEN ParseSub(cmd, rest, i + 1, [ns EXCEPT !["conda_env"] = Path("x")], extras)
         ELSE IF cmd = "build" /\ tok \in ValueTokens /\ ns["image_path"] = NoValue
         THEN ParseSub(cmd, rest, i + 1, [ns EXCEPT !["image_path"] = Path(tok)], extras)
         ELSE ParseSub(cmd, rest, i + 1, ns, TRUE)

(* The main parser from token i on; extras: an unrecognized argument was seen. *)
RECURSIVE ParseTop(_, _, _)
ParseTop(av, i, extras) ==
    IF i > Len(av)
    THEN IF extras THEN SysExit(2, << >>) ELSE Parsed(<< >>, FALSE)
    ELSE LET tok == av[i] IN
         IF tok = "-h" THEN SysExit(0, <<HelpText("top")>>)
         ELSE IF tok \in {"build", "info"}
         THEN LET sub == ParseSub(tok, SubSeq(av, i + 1, Len(av)), 1,
                                  IF tok = "build" THEN BuildDefaults ELSE InfoDefaults,
                                  FALSE)
              IN  IF sub.kind = "exit" THEN sub
                  ELSE IF extras \/ sub.extras THEN SysExit(2, << >>)
                  ELSE sub
         ELSE IF tok \in ValueTokens THEN SysExit(2, << >>)
         ELSE ParseTop(av, i + 1, TRUE)

(* parser.parse_args() *)
ParseArgs(av) == ParseTop(av, 1, FALSE)

(* ---------------------------------------------------------------------- *)
(* Subcommand construction                                                 *)
(* ---------------------------------------------------------------------- *)
Ok(obj) == [kind |-> "ok", obj |-> obj]
Raise(e) == [kind |-> "raise", exc |-> e]

BuildParams == {"image_path", "base_image", "conda_env"}
Get(kwargs, k) == IF k \in DOMAIN kwargs THEN kwargs[k] ELSE NoValue

(* Build.__init__: keyword-only image_path, base_image, conda_env, each    *)
(* defaulting to None                                                      *)
BuildNew(kwargs) ==
    IF ~(DOMAIN kwargs \subseteq BuildParams) THEN Raise("TypeError")
    ELSE IF Get(kwargs, "image_path") = NoValue THEN Raise("AttributeError")
    ELSE Ok([cls |-> "Build",
             image_path |-> Absolute(kwargs["image_path"]),
             base_image |-> Get(kwargs, "base_image"),
             conda_env |-> IF Get(kwargs, "conda_env") # NoValue
                           THEN Absolute(kwargs["conda_env"])
                           ELSE NoValue])

(* Info has no __init__ of its own: it takes no arguments *)
InfoNew(kwargs) ==
    IF DOMAIN kwargs # {} THEN Raise("TypeError") ELSE Ok([cls |-> "Info"])

New(cls, kwargs) == IF cls = "Build" THEN BuildNew(kwargs) ELSE InfoNew(kwargs)

NoSubcommand == [cls |-> "NoSubcommand"]

(* mutant: the subcommand_cls selector is passed on to the constructor *)
SubcommandArgs_Unfiltered(ns) == ns

(* {key: val for key, val in vars(self.args).items() if key != "subcommand_cls"} *)
SubcommandArgs(ns) == [k \in DOMAIN ns \ {"subcommand_cls"} |-> ns[k]]

(* self.args.subcommand_cls called with subcommand_args as keywords, and   *)
(* its except AttributeError                                               *)
Dispatch(ns) ==
    IF "subcommand_cls" \notin DOMAIN ns THEN Ok(NoSubcommand)
    ELSE LET made == New(ns["subcommand_cls"].s, SubcommandArgs(ns))
         IN  IF made.kind = "raise" /\ made.exc = "AttributeError"
             THEN Ok(NoSubcommand)
             ELSE made

(* ---------------------------------------------------------------------- *)
(* BuilderCLI.__init__, as the main block calls it: BuilderCLI()           *)
(* ---------------------------------------------------------------------- *)
InitCLI ==
    /\ argv \in Vectors(MaxArgs)
    /\ supplied = NoArgs
    /\ pc = "start"
    /\ args = << >> /\ subcommand = Unset
    /\ stdout = << >> /\ exit_code = Running
    /\ calls = << >> /\ acquired = 0 /\ released = 0 /\ exc = None
    /\ arg = << >> /\ docstring = << >> /\ result = NoResult

Construct ==
    /\ pc = "start"
    /\ supplied = NoArgs
    /\ LET r == ParseArgs(argv) IN
       IF r.kind = "exit"
       THEN /\ pc' = "exited"
            /\ stdout' = stdout \o r.out
            /\ exit_code' = r.code
            /\ UNCHANGED <<args, subcommand, exc>>
       ELSE LET made == Dispatch(r.ns) IN
            /\ args' = r.ns
            /\ IF made.kind = "raise"
               THEN /\ pc' = "done"
                    /\ exc' = made.exc
                    /\ exit_code' = 1
                    /\ UNCHANGED subcommand
               ELSE /\ pc' = "constructed"
                    /\ subcommand' = made.obj
                    /\ UNCHANGED <<exc, exit_code>>
            /\ UNCHANGED stdout
    /\ UNCHANGED <<argv, supplied, calls, acquired, released>>
    /\ UNCHANGED extractVars

(* BuilderCLI(args=...): __init__(self) takes no argument list *)
ConstructWithArgs ==
    /\ pc = "start"
    /\ supplied # NoArgs
    /\ pc' = "done"
    /\ exc' = "TypeError"
    /\ exit_code' = 1
    /\ UNCHANGED <<argv, supplied, args, subcommand, stdout, calls, acquired, released>>
    /\ UNCHANGED extractVars

(* ---------------------------------------------------------------------- *)
(* cli.subcommand.execute()                                                *)
(* ---------------------------------------------------------------------- *)
Call(op, a) == [op |-> op, arg |-> a]

CondaEnvName == "conda_container_env"
SandboxDir == [t |-> "path", anchor |-> "/", parts |-> <<"sandbox_dir">>]
BootstrapScript == [t |-> "script", s |-> "conda_runtime_bootstrap_script"]
(* f"conda env create -f {self.conda_env.as_posix()} -n {conda_env_name}" *)
CondaCreate(env) == [t |-> "cmd", s |-> "conda env create", f |-> env, n |-> CondaEnvName]
(* f"conda activate {conda_env_name}" *)
CondaActivate == [t |-> "cmd", s |-> "conda activate", n |-> CondaEnvName]

(* Info.execute *)
InfoExecute ==
    /\ pc = "constructed"
    /\ subcommand.cls = "Info"
    /\ stdout' = Append(stdout, InfoMessage)
    /\ pc' = "done"
    /\ exit_code' = 0
    /\ UNCHANGED <<argv, supplied, args, subcommand>>
    /\ UNCHANGED buildVars
    /\ UNCHANGED extractVars

(* mutant: the fallback handler prints nothing *)
NoSubcommandExecute_Silent ==
    /\ pc = "constructed"
    /\ subcommand.cls = "NoSubcommand"
    /\ pc' = "done"
    /\ exit_code' = 0
    /\ UNCHANGED <<argv, supplied, args, subcommand, stdout>>
    /\ UNCHANGED buildVars
    /\ UNCHANGED extractVars

(* NoSubcommand.execute *)
NoSubcommandExecute ==
    /\ pc = "constructed"
    /\ subcommand.cls = "NoSubcommand"
    /\ stdout' = Append(stdout, HelpText("top"))
    /\ pc' = "done"
    /\ exit_code' = 0
    /\ UNCHANGED <<argv, supplied, args, subcommand>>
    /\ UNCHANGED buildVars
    /\ UNCHANGED extractVars

(* One collaborator call inside the with block: it returns and execution   *)
(* goes on at next, or it raises and the with statement unwinds.           *)
BodyStep(call, next) ==
    /\ calls' = Append(calls, call)
    /\ \E raises \in BOOLEAN :
          IF raises
          THEN pc' = "exit_with" /\ exc' = call.op
          ELSE pc' = next /\ UNCHANGED exc
    /\ UNCHANGED <<acquired, released>>
    /\ UNCHANGED cliVars
    /\ UNCHANGED extractVars

(* with container.Sandbox(self.base_image) as sandbox: construction and    *)
(* __enter__; when it raises nothing was acquired and nothing is released  *)
(* mutant: the conda steps run whether or not a conda_env was given *)
AfterEnter_Always == "conda_install"

AfterEnter == IF subcommand.conda_env # NoValue THEN "conda_install" ELSE "build_image"

SandboxEnter ==
    /\ pc = "constructed"
    /\ subcommand.cls = "Build"
    /\ calls' = Append(calls, Call("Sandbox", subcommand.base_image))
    /\ \E raises \in BOOLEAN :
          IF raises
          THEN /\ pc' = "done"
               /\ exc' = "Sandbox"
               /\ exit_code' = 1
               /\ UNCHANGED acquired
          ELSE /\ pc' = AfterEnter
               /\ acquired' = acquired + 1
               /\ UNCHANGED <<exc, exit_code>>
    /\ UNCHANGED <<argv, supplied, args, subcommand, stdout, released>>
    /\ UNCHANGED extractVars

CondaInstallNew ==
    /\ pc = "conda_install"
    /\ BodyStep(Call("CondaInstall", SandboxDir), "run_command")

RunCommand ==
    /\ pc = "run_command"
    /\ BodyStep(Call("run_command", CondaCreate(subcommand.conda_env)), "add_bootstrap")

(* mutant: the activation command is registered before the bootstrap script *)
AddToEnvBootstrap_Swapped ==
    /\ pc = "add_bootstrap"
    /\ calls' = calls \o <<Call("add_to_env", CondaActivate), Call("add_to_env", BootstrapScript)>>
    /\ pc' = "cleanup"
    /\ UNCHANGED <<acquired, released, exc>>
    /\ UNCHANGED cliVars
    /\ UNCHANGED extractVars

AddToEnvBootstrap ==
    /\ pc = "add_bootstrap"
    /\ BodyStep(Call("add_to_env", BootstrapScript), "add_activate")

AddToEnvActivate ==
    /\ pc = "add_activate"
    /\ BodyStep(Call("add_to_env", CondaActivate), "cleanup")

CleanupUnusedFiles ==
    /\ pc = "cleanup"
    /\ BodyStep(Call("cleanup_unused_files", NoValue), "build_image")

BuildImage ==
    /\ pc = "build_image"
    /\ BodyStep(Call("build_image", subcommand.image_path), "exit_with")

(* mutant: the sandbox is released only when the body did not raise *)
SandboxExit_SuccessOnly ==
    /\ pc = "exit_with"
    /\ calls' = IF exc = None THEN Append(calls, Call("release", NoValue)) ELSE calls
    /\ released' = IF exc = None THEN released + 1 ELSE released
    /\ pc' = "done"
    /\ exit_code' = IF exc = None THEN 0 ELSE 1
    /\ UNCHANGED <<acquired, exc>>
    /\ UNCHANGED <<argv, supplied, args, subcommand, stdout>>
    /\ UNCHANGED extractVars

(* Leaving the with block: Sandbox.__exit__, then execute() returns or the *)
(* exception goes on to the process boundary.                              *)
SandboxExit ==
    /\ pc = "exit_with"
    /\ calls' = Append(calls, Call("release", NoValue))
    /\ released' = released + 1
    /\ pc' = "done"
    /\ exit_code' = IF exc = None THEN 0 ELSE 1
    /\ UNCHANGED <<acquired, exc>>
    /\ UNCHANGED <<argv, supplied, args, subcommand, stdout>>
    /\ UNCHANGED extractVars

Next ==
    \/ Construct
    \/ InfoExecute
    \/ NoSubcommandExecute
    \/ SandboxEnter
    \/ CondaInstallNew
    \/ RunCommand
    \/ AddToEnvBootstrap
    \/ AddToEnvActivate
    \/ CleanupUnusedFiles
    \/ BuildImage
    \/ SandboxExit

Spec == InitCLI /\ [][Next]_vars

InitArgs ==
    /\ argv \in Vectors(MaxSupplied)
    /\ supplied \in Vectors(MaxSupplied)
    /\ pc = "start"
    /\ args = << >> /\ subcommand = Unset
    /\ stdout = << >> /\ exit_code = Running
    /\ calls = << >> /\ acquired = 0 /\ released = 0 /\ exc = None
    /\ arg = << >> /\ docstring = << >> /\ result = NoResult

NextArgs == ConstructWithArgs

SpecArgs == InitArgs /\ [][NextArgs]_vars

(* ---------------------------------------------------------------------- *)
(* Properties of _extract_help_from_docstring (under SpecExtract)          *)
(* ---------------------------------------------------------------------- *)
Lines == SplitLines(docstring)
HeaderIndexes(a, lines) == {i \in 1..Len(lines) : Contains(lines[i], ArgPattern(a))}
FirstHeader(a, lines) ==
    CHOOSE i \in HeaderIndexes(a, lines) : \A j \in HeaderIndexes(a, lines) : i <= j
Terminates(line) == Contains(line, TypeSep) \/ IsBlank(line)
(* the index after the last description line of the entry that starts at h *)
DescriptionEnd(lines, h) ==
    IF \E j \in (h + 1)..Len(lines) : Terminates(lines[j])
    THEN CHOOSE j \in (h + 1)..Len(lines) :
            Terminates(lines[j]) /\ \A k \in (h + 1)..(j - 1) : ~Terminates(lines[k])
    ELSE Len(lines) + 1
Description(a, lines) ==
    LET h == FirstHeader(a, lines) IN SubSeq(lines, h + 1, DescriptionEnd(lines, h) - 1)

RECURSIVE JoinWithSpaces(_)
JoinWithSpaces(ls) ==
    IF ls = << >> THEN << >>
    ELSE IF Len(ls) = 1 THEN Head(ls)
    ELSE Head(ls) \o <<SP>> \o JoinWithSpaces(Tail(ls))

(* a description line: optional indentation, then text that starts with a *)
(* letter and has no white space after it                                  *)
IsTextLine(line) ==
    /\ LStrip(line) # << >>
    /\ Head(LStrip(line)) = "D"
    /\ line[Len(line)] # SP

(* the entry of a occurs once, has description lines, and is ended by a    *)
(* blank line or by the next entry                                         *)
WellFormedFor(a, lines) ==
    /\ Cardinality(HeaderIndexes(a, lines)) = 1
    /\ LET h == FirstHeader(a, lines) IN
       /\ DescriptionEnd(lines, h) <= Len(lines)
       /\ DescriptionEnd(lines, h) > h + 1
       /\ \A k \in (h + 1)..(DescriptionEnd(lines, h) - 1) : IsTextLine(lines[k])

RECURSIVE RStripSpaces(_)
RStripSpaces(s) ==
    IF s # << >> /\ s[Len(s)] = SP THEN RStripSpaces(SubSeq(s, 1, Len(s) - 1)) ELSE s

(* C4: for a well-formed docstring in which "<name> : " occurs once, the   *)
(* extractor returns the description lines joined by single spaces, with   *)
(* the leading white space stripped, in lower case and without a trailing  *)
(* period. (White space at the end of the returned text is disregarded,    *)
(* which only weakens the statement.)                                      *)
C4_ReturnsCleanDescription ==
    (pc = "done" /\ WellFormedFor(arg, Lines)) =>
        /\ result.kind = "return"
        /\ RStripSpaces(result.value) =
              RStripDot(Lower(LStrip(JoinWithSpaces(Description(arg, Lines)))))

(* the entry of a is the last thing in the text: its description runs to   *)
(* the end of the input                                                    *)
EndsInDescription(a, lines) ==
    /\ HeaderIndexes(a, lines) # {}
    /\ LET h == FirstHeader(a, lines) IN
       /\ h < Len(lines)
       /\ DescriptionEnd(lines, h) = Len(lines) + 1
       /\ \A k \in (h + 1)..Len(lines) : IsTextLine(lines[k])

(* C5: when the description of the requested parameter runs to the end of  *)
(* the docstring, the extractor returns what it returns for the same       *)
(* docstring followed by a blank line.                                     *)
C5_EndOfInputLikeBlankLine ==
    (pc = "done" /\ EndsInDescription(arg, Lines)) =>
        /\ result.kind = "return"
        /\ result = ExtractLoop(arg, Append(Lines, << >>), 1, FALSE, << >>)

(* C6: the extractor raises KeyError exactly when no line of the docstring *)
(* contains "<name> : ".                                                   *)
C6_KeyErrorIffAbsent ==
    pc = "done" => (result = KeyError <=> HeaderIndexes(arg, Lines) = {})

(* ---------------------------------------------------------------------- *)
(* Properties of Build.execute (under Spec)                                *)
(* ---------------------------------------------------------------------- *)
IsBuild == subcommand.cls = "Build"
CallsOf(ops) == SelectSeq(calls, LAMBDA c : c.op \in ops)
CondaOps == {"CondaInstall", "run_command", "add_to_env", "cleanup_unused_files"}

(* C1: with a conda_env and no step raising, execute() makes exactly these *)
(* calls in this order: Sandbox(base_image), run_command of "conda env     *)
(* create -f <conda_env> -n conda_container_env", add_to_env of the        *)
(* bootstrap script, add_to_env of "conda activate conda_container_env",   *)
(* cleanup_unused_files, build_image(image_path), and then the release of  *)
(* the sandbox.                                                            *)
C1_CondaCallOrder ==
    (pc = "done" /\ IsBuild /\ exc = None /\ subcommand.conda_env # NoValue) =>
        CallsOf({"Sandbox", "release", "build_image"} \cup (CondaOps \ {"CondaInstall"})) =
            << [op |-> "Sandbox", arg |-> subcommand.base_image],
               [op |-> "run_command",
                arg |-> [t |-> "cmd", s |-> "conda env create",
                         f |-> subcommand.conda_env, n |-> "conda_container_env"]],
               [op |-> "add_to_env",
                arg |-> [t |-> "script", s |-> "conda_runtime_bootstrap_script"]],
               [op |-> "add_to_env",
                arg |-> [t |-> "cmd", s |-> "conda activate", n |-> "conda_container_env"]],
               [op |-> "cleanup_unused_files", arg |-> NoValue],
               [op |-> "build_image", arg |-> subcommand.image_path],
               [op |-> "release", arg |-> NoValue] >>

C1_Witness ==
    /\ pc = "done" /\ IsBuild /\ exc = None
    /\ subcommand.conda_env # NoValue
    /\ Len(CallsOf({"add_to_env"})) = 2
    /\ released = 1

(* C2: an acquired sandbox is released exactly once by the time execute()  *)
(* has returned or raised, whichever step raised; it is never released     *)
(* while the body still runs, never more often than acquired.              *)
C2_ReleasedExactlyOnce ==
    /\ acquired <= 1
    /\ released <= acquired
    /\ (pc = "done" /\ acquired = 1) => released = 1
    /\ (pc \notin {"done", "exited"}) => released = 0

C2_Witness ==
    pc = "done" /\ acquired = 1 /\ released = 1 /\ exc = "run_command" /\ exit_code = 1

(* C3: without a conda_env, execute() never constructs CondaInstall and    *)
(* never calls run_command, add_to_env or cleanup_unused_files; it         *)
(* acquires the sandbox once and calls build_image(image_path) once.       *)
C3_NoCondaSteps ==
    (IsBuild /\ subcommand.conda_env = NoValue) =>
        /\ CallsOf(CondaOps) = << >>
        /\ Len(CallsOf({"Sandbox"})) <= 1 /\ Len(CallsOf({"build_image"})) <= 1
        /\ (pc = "done" /\ exc = None) =>
              calls = << [op |-> "Sandbox", arg |-> subcommand.base_image],
                         [op |-> "build_image", arg |-> subcommand.image_path],
                         [op |-> "release", arg |-> NoValue] >>

C3_Witness ==
    /\ pc = "done" /\ IsBuild /\ exc = None
    /\ subcommand.conda_env = NoValue
    /\ Len(CallsOf({"build_image"})) = 1 /\ acquired = 1

(* ---------------------------------------------------------------------- *)
(* Properties of the dispatcher (under Spec and SpecArgs)                  *)
(* ---------------------------------------------------------------------- *)
HasToken(av, t) == \E i \in 1..Len(av) : av[i] = t
Ended == pc \in {"done", "exited"}

(* C7: an empty argument vector and the single argument --help print the   *)
(* same top-level help and end with exit code 0, and neither constructs or *)
(* executes Build or Info.                                                 *)
C7_NoArgsLikeHelp ==
    (argv \in {<< >>, <<"-h">>}) =>
        /\ subcommand.cls \notin {"Build", "Info"}
        /\ calls = << >>
        /\ Ended => (stdout = <<HelpText("top")>> /\ exit_code = 0)

C7_Witness ==
    argv = << >> /\ pc = "done" /\ stdout = <<HelpText("top")>> /\ exit_code = 0

(* the malformed argument vectors: an unknown flag, an unknown subcommand  *)
(* token, build without image_path or without --base-image, info with      *)
(* anything after it (a build or info that asks for help is not counted    *)
(* as one of the last three)                                               *)
UnknownFlag(av) == HasToken(av, "--bogus")
UnknownSubcommand(av) == av # << >> /\ Head(av) = "x"
BuildWithoutBaseImage(av) ==
    /\ av # << >> /\ Head(av) = "build"
    /\ ~HasToken(av, "-h")
    /\ ~HasToken(Tail(av), "--base-image")
BuildWithoutImagePath(av) ==
    /\ av # << >> /\ Head(av) = "build"
    /\ ~HasToken(av, "-h")
    /\ \A i \in 2..Len(av) : av[i] \in ValueTokens => av[i - 1] = "--base-image"
InfoWithExtra(av) == Len(av) > 1 /\ Head(av) = "info" /\ ~HasToken(av, "-h")
Malformed(av) ==
    \/ UnknownFlag(av)
    \/ UnknownSubcommand(av)
    \/ BuildWithoutBaseImage(av)
    \/ BuildWithoutImagePath(av)
    \/ InfoWithExtra(av)

ParseFailed ==
    /\ pc = "exited"
    /\ exit_code \notin {0, Running}
    /\ subcommand = Unset
    /\ calls = << >> /\ acquired = 0

(* C8 as stated: every malformed argument vector ends the process with a   *)
(* non-zero exit code, no subcommand constructed and none executed.        *)
C8_MalformedExitsNonZero ==
    (pc # "start" /\ Malformed(argv)) => ParseFailed

(* C8 amended: every malformed argument vector without -h/--help in it     *)
(* ends the process with a non-zero exit code, no subcommand constructed   *)
(* and none executed; with -h/--help in it, still no subcommand is         *)
(* constructed or executed.                                                *)
C8_MalformedWithoutHelpExitsNonZero ==
    (pc # "start" /\ Malformed(argv)) =>
        /\ pc = "exited" /\ subcommand = Unset /\ calls = << >> /\ acquired = 0
        /\ ~HasToken(argv, "-h") => ParseFailed

C8_Witness ==
    /\ pc = "exited" /\ exit_code = 2
    /\ BuildWithoutBaseImage(argv) /\ ~BuildWithoutImagePath(argv)
    /\ ~UnknownFlag(argv) /\ ~HasToken(argv, "-h")

(* C9: constructed with an argument list, the dispatcher parses that list, *)
(* and the outcome is the one of parsing it.                               *)
C9_SuppliedListIsParsed ==
    (pc # "start" /\ supplied # NoArgs) =>
        LET r == ParseArgs(supplied) IN
        IF r.kind = "exit"
        THEN pc = "exited" /\ exit_code = r.code /\ stdout = r.out
        ELSE pc = "constructed" /\ args = r.ns /\ exc = None

(* C10: a successful parse ends in exactly one handler: the matched        *)
(* subcommand's type built from exactly the parsed values other than       *)
(* subcommand_cls (image_path, base_image, conda_env for Build, none for   *)
(* Info), and the help fallback exactly when no subcommand token was given.*)
C10_OneHandler ==
    (pc \notin {"start", "exited"}) =>
        /\ subcommand.cls \in {"Build", "Info", "NoSubcommand"}
        /\ subcommand.cls = "NoSubcommand" <=> ~(HasToken(argv, "build") \/ HasToken(argv, "info"))
        /\ HasToken(argv, "build") \/ HasToken(argv, "info") =>
              /\ "subcommand_cls" \in DOMAIN args
              /\ subcommand.cls = args["subcommand_cls"].s
        /\ subcommand.cls = "Build" =>
              /\ DOMAIN subcommand = {"cls", "image_path", "base_image", "conda_env"}
              /\ DOMAIN args = {"subcommand_cls", "image_path", "base_image", "conda_env"}
              /\ subcommand.image_path.parts = Cwd \o args["image_path"].parts
              /\ subcommand.base_image = args["base_image"]
              /\ IF args["conda_env"] = NoValue
                 THEN subcommand.conda_env = NoValue
                 ELSE subcommand.conda_env.parts = Cwd \o args["conda_env"].parts
        /\ subcommand.cls = "Info" =>
              /\ DOMAIN subcommand = {"cls"}
              /\ DOMAIN args = {"subcommand_cls"}

C10_Witness ==
    /\ pc = "constructed" /\ subcommand.cls = "Build"
    /\ subcommand.conda_env # NoValue
    /\ subcommand.base_image = Str("info")

====
